---- MODULE Spec2Model ----
(***************************************************************************)
(* Model of src/augmenta.py: the settings document kept in                 *)
(* st.session_state.settings, the file augmenta.yaml, and the handlers     *)
(* that read, change and save them.                                        *)
(*                                                                         *)
(* Representation.  A document (a nested Python dict) is a function from   *)
(* paths to leaves: the path <<"model", "provider">> stands for            *)
(* settings["model"]["provider"].  A leaf is a scalar, a list, or the mark *)
(* of an empty mapping.  No path of a document is a prefix of another.     *)
(* A text is a sequence of tokens; " " and "\n" are tokens of their own,   *)
(* so that blank texts and line splitting are computed, not assumed.       *)
(* The file is a sequence of lines, one per leaf, in dump order.           *)
(*                                                                         *)
(* The name saved_settings (lines 232-408) is bound nowhere in the file.   *)
(* The model reads it as st.session_state.settings, the only document the  *)
(* script holds; as written, the script raises NameError at line 232.      *)
(***************************************************************************)
EXTENDS Integers, Sequences, FiniteSets, TLC

VARIABLES
    settings,         \* st.session_state.settings
    settings_loaded,  \* 'settings_loaded' in st.session_state
    file,             \* augmenta.yaml: [exists, content]
    started,          \* "Starting process with current configuration..." was shown
    ev,               \* the last handler that ran: its inputs and its result
    rs,               \* two racing sessions: [pc, doc, result] each
    lastWriter        \* the racing session whose dump finished last (0: none)

vars == <<settings, settings_loaded, file, started, ev, rs, lastWriter>>

\* ------------------------------------------------------------------ bounds

MaxExamples == 1

\* ------------------------------------------------------------------ leaves

StrLeaf(t)   == [kind |-> "str",   text |-> t, items |-> <<>>]
IntLeaf(t)   == [kind |-> "int",   text |-> t, items |-> <<>>]
FloatLeaf(t) == [kind |-> "float", text |-> t, items |-> <<>>]
BoolLeaf(t)  == [kind |-> "bool",  text |-> t, items |-> <<>>]
ListLeaf(xs) == [kind |-> "list",  text |-> <<>>, items |-> xs]
EmptyMap == [kind |-> "map",   text |-> <<>>, items |-> <<>>]

Whitespace == {" ", "\n"}

\* s.strip() == ""
IsBlank(s) == \A i \in 1..Len(s) : s[i] \in Whitespace

\* bool(s) for a str
Truthy(s) == Len(s) > 0

\* ------------------------------------------------------------------ paths

IsPrefix(p, q) == Len(p) <= Len(q) /\ SubSeq(q, 1, Len(p)) = p

Unrelated(p, q) == ~IsPrefix(p, q) /\ ~IsPrefix(q, p)

\* k in d[...]: the key reached by path p is present
HasKey(d, p) == \E q \in DOMAIN d : IsPrefix(p, q)

\* the value at p is a dict
IsMapping(d, p) ==
    \/ p = <<>>
    \/ p \in DOMAIN d /\ d[p].kind = "map"
    \/ \E q \in DOMAIN d : IsPrefix(p, q) /\ q # p

\* a scalar or list as the subtree assigned to a key
Scalar(leaf) == [r \in {<<>>} |-> leaf]

\* d[path] = sub, where sub is a subtree given by its relative paths
SetItem(d, path, sub) ==
    LET keep == {q \in DOMAIN d : Unrelated(path, q)}
        new  == {path \o r : r \in DOMAIN sub}
    IN  [q \in keep \cup new |->
            IF q \in keep THEN d[q] ELSE sub[SubSeq(q, Len(path) + 1, Len(q))]]

EmptyDoc == [q \in {} |-> EmptyMap]

\* ------------------------------------------------------------------ defaults

DefaultPaths ==
    << <<"input_csv">>, <<"output_csv">>,
       <<"model", "provider">>, <<"model", "name">>,
       <<"search", "engine">>, <<"search", "results">>,
       <<"prompt", "system">>, <<"prompt", "user">>,
       <<"structure", "industry", "type">>,
       <<"structure", "industry", "description">>,
       <<"structure", "industry", "options">>,
       <<"structure", "explanation", "type">>,
       <<"structure", "explanation", "description">>,
       <<"examples">>, <<"logfire">> >>

Range(s) == {s[i] : i \in 1..Len(s)}

default_settings ==
    [p \in Range(DefaultPaths) |->
        CASE p = <<"input_csv">> -> StrLeaf(<<"data/input.csv">>)
          [] p = <<"output_csv">> -> StrLeaf(<<"data/output.csv">>)
          [] p = <<"model", "provider">> -> StrLeaf(<<"openai">>)
          [] p = <<"model", "name">> -> StrLeaf(<<"gpt-4o-mini">>)
          [] p = <<"search", "engine">> -> StrLeaf(<<"google">>)
          [] p = <<"search", "results">> -> IntLeaf(<<"10">>)
          [] p = <<"prompt", "system">> -> StrLeaf(<<"You are an expert researcher.">>)
          [] p = <<"prompt", "user">> -> StrLeaf(<<"# Instructions">>)
          [] p = <<"structure", "industry", "type">> -> StrLeaf(<<"str">>)
          [] p = <<"structure", "industry", "description">> -> StrLeaf(<<"What industry">>)
          [] p = <<"structure", "industry", "options">> ->
                ListLeaf(<< <<"Agriculture, Forestry and Fishing">>, <<"Manufacturing">>, <<"Other">> >>)
          [] p = <<"structure", "explanation", "type">> -> StrLeaf(<<"str">>)
          [] p = <<"structure", "explanation", "description">> -> StrLeaf(<<"A brief explanation">>)
          [] p = <<"examples">> -> ListLeaf(<<>>)
          [] p = <<"logfire">> -> BoolLeaf(<<"False">>)]

\* the dump order of the keys: the default document's, then the keys added later
PathOrder ==
    DefaultPaths \o
    << <<"prompt">>, <<"model">>, <<"search">>, <<"structure">>,
       <<"structure", "x", "type">>,
       <<"structure", "x", "description">>,
       <<"structure", "x", "options">>,
       <<"note">> >>

\* ------------------------------------------------------------------ yaml

\* "{}": the flow form of an empty mapping
FlowEmpty == [path |-> <<>>, leaf |-> EmptyMap]

\* a line that is no YAML
Garbage == [path |-> <<>>, leaf |-> [kind |-> "bad", text |-> <<>>, items |-> <<>>]]

\* a dump that knows the keys of the default document only
yaml_dump_default_keys(d) ==
    IF DOMAIN d = {} THEN <<FlowEmpty>>
    ELSE LET paths == SelectSeq(DefaultPaths, LAMBDA p : p \in DOMAIN d)
         IN  [i \in 1..Len(paths) |-> [path |-> paths[i], leaf |-> d[paths[i]]]]

\* yaml.dump(d, file, sort_keys=False): one line per leaf, "{}" for an empty mapping
yaml_dump(d) ==
    IF DOMAIN d = {} THEN <<FlowEmpty>>
    ELSE LET paths == SelectSeq(PathOrder, LAMBDA p : p \in DOMAIN d)
         IN  [i \in 1..Len(paths) |-> [path |-> paths[i], leaf |-> d[paths[i]]]]

\* yaml.safe_load(content): None for an empty stream, a dict, or an exception.
\* A key given twice takes its last value (PyYAML keeps the later one).
safe_load(content) ==
    LET paths == {content[i].path : i \in 1..Len(content)}
        last(p) == CHOOSE i \in 1..Len(content) :
                      /\ content[i].path = p
                      /\ \A j \in 1..Len(content) : content[j].path = p => j <= i
    IN  IF content = <<>> THEN [status |-> "none", doc |-> EmptyDoc]
        ELSE IF \E i \in 1..Len(content) : content[i] = Garbage
             THEN [status |-> "error", doc |-> EmptyDoc]
        ELSE IF content = <<FlowEmpty>> THEN [status |-> "ok", doc |-> EmptyDoc]
        ELSE IF \E p \in paths, q \in paths : p # q /\ IsPrefix(p, q)
             THEN [status |-> "error", doc |-> EmptyDoc]
        ELSE [status |-> "ok", doc |-> [p \in paths |-> content[last(p)].leaf]]

\* ------------------------------------------------------------------ load and save

NoFile == [exists |-> FALSE, content |-> <<>>]

FileOf(content) == [exists |-> TRUE, content |-> content]

\* what the file system does to one call: nothing wrong, the write raises
\* after open() truncated the file, or the read raises
Faults == {"ok", "write_fail", "read_fail"}

\* a load that returns the defaults for a missing file without writing them
load_settings_no_create(f, fault) ==
    IF f.exists
    THEN LET loaded == safe_load(f.content)
         IN  IF fault = "read_fail" \/ loaded.status = "error"
             THEN [settings |-> default_settings, file |-> f, warned |-> TRUE]
             ELSE IF loaded.status = "ok" /\ DOMAIN loaded.doc # {}
             THEN [settings |-> loaded.doc, file |-> f, warned |-> FALSE]
             ELSE [settings |-> default_settings, file |-> f, warned |-> FALSE]
    ELSE [settings |-> default_settings, file |-> f, warned |-> fault # "ok"]

\* load_settings(): [settings, file, warned]
load_settings(f, fault) ==
    IF f.exists
    THEN LET loaded == safe_load(f.content)
         IN  IF fault = "read_fail" \/ loaded.status = "error"
             THEN [settings |-> default_settings, file |-> f, warned |-> TRUE]
             ELSE IF loaded.status = "ok" /\ DOMAIN loaded.doc # {}
             THEN [settings |-> loaded.doc, file |-> f, warned |-> FALSE]
             ELSE [settings |-> default_settings, file |-> f, warned |-> FALSE]
    ELSE IF fault = "write_fail"
         THEN [settings |-> default_settings, file |-> FileOf(<<>>), warned |-> TRUE]
         ELSE [settings |-> default_settings,
               file |-> FileOf(yaml_dump(default_settings)), warned |-> FALSE]

\* a value handed to save_settings: None, or a document
None == [isNone |-> TRUE, doc |-> EmptyDoc]

Some(d) == [isNone |-> FALSE, doc |-> d]

\* save_settings(arg): [file, result]
save_settings(arg, f, fault) ==
    IF arg.isNone THEN [file |-> f, result |-> FALSE]
    ELSE IF fault = "write_fail" THEN [file |-> FileOf(<<>>), result |-> FALSE]
    ELSE LET written == FileOf(yaml_dump(arg.doc))
         IN  [file |-> written,
              result |-> fault # "read_fail" /\ written.content # <<>>]

\* ------------------------------------------------------------------ texts

\* s.split(sep)
RECURSIVE Split(_, _)
Split(s, sep) ==
    IF \A i \in 1..Len(s) : s[i] # sep THEN <<s>>
    ELSE LET i == CHOOSE i \in 1..Len(s) :
                     s[i] = sep /\ \A j \in 1..(i - 1) : s[j] # sep
         IN  <<SubSeq(s, 1, i - 1)>> \o Split(SubSeq(s, i + 1, Len(s)), sep)

\* key.split('.'), each name of the key being one token
SplitKey(key) ==
    LET parts == Split(key, ".")
    IN  [i \in 1..Len(parts) |-> parts[i][1]]

\* [opt for opt in text.split("\n") if opt.strip()]
OptionLines(text) == SelectSeq(Split(text, "\n"), LAMBDA opt : ~IsBlank(opt))

\* ------------------------------------------------------------------ update_and_save

\* the loop without its test "if k not in current": every key on the way gets {}
RECURSIVE NavigateClobber(_, _, _)
NavigateClobber(d, keys, i) ==
    LET cur == SubSeq(keys, 1, i)
        nxt == SubSeq(keys, 1, i + 1)
    IN  IF ~IsMapping(d, cur) THEN [raised |-> TRUE, doc |-> d]
        ELSE IF i >= Len(keys) - 1 THEN [raised |-> FALSE, doc |-> d]
        ELSE NavigateClobber(SetItem(d, nxt, Scalar(EmptyMap)), keys, i + 1)

\* the loop over keys[:-1]: a missing key gets {}, and a value that is no dict
\* raises TypeError where it is indexed or assigned into
RECURSIVE Navigate(_, _, _)
Navigate(d, keys, i) ==
    LET cur == SubSeq(keys, 1, i)
        nxt == SubSeq(keys, 1, i + 1)
    IN  IF ~IsMapping(d, cur) THEN [raised |-> TRUE, doc |-> d]
        ELSE IF i >= Len(keys) - 1 THEN [raised |-> FALSE, doc |-> d]
        ELSE IF ~HasKey(d, nxt)
             THEN Navigate(SetItem(d, nxt, Scalar(EmptyMap)), keys, i + 1)
             ELSE Navigate(d, keys, i + 1)

\* lines 100-110, the change in memory: [raised, doc]
update_in_memory(d, key, value) ==
    LET keys == SplitKey(key)
        nav  == Navigate(d, keys, 0)
    IN  IF nav.raised THEN nav
        ELSE [raised |-> FALSE, doc |-> SetItem(nav.doc, keys, Scalar(value))]

\* update_and_save(key, value): [settings, file, result, raised]
update_and_save(d, f, key, value, fault) ==
    LET u == update_in_memory(d, key, value)
        r == save_settings(Some(u.doc), f, fault)
    IN  IF u.raised
        THEN [settings |-> u.doc, file |-> f, result |-> FALSE, raised |-> TRUE]
        ELSE [settings |-> u.doc, file |-> r.file, result |-> r.result, raised |-> FALSE]

\* ------------------------------------------------------------------ structure

\* the keys of settings["structure"]
FieldNames(d) ==
    {q[2] : q \in {q \in DOMAIN d : Len(q) = 3 /\ q[1] = "structure"}}

\* field_config.get("type", "str")
FieldType(d, name) ==
    IF <<"structure", name, "type">> \in DOMAIN d
    THEN d[<<"structure", name, "type">>].text[1] ELSE "str"

HasOptions(d, name) == <<"structure", name, "options">> \in DOMAIN d

\* the dict assigned to structure[new_field_name]
NewFieldConfig(ftype, desc, options) ==
    [r \in {<<"type">>, <<"description">>} \cup
           (IF options # <<>> THEN {<<"options">>} ELSE {}) |->
        CASE r = <<"type">> -> StrLeaf(<<ftype>>)
          [] r = <<"description">> -> StrLeaf(desc)
          [] r = <<"options">> -> ListLeaf(options)]

\* the Add Field button: [settings, file, result, raised, acted]
add_field(d, f, name, ftype, desc, has_options, text, fault) ==
    LET options == IF has_options THEN OptionLines(text) ELSE <<>>
        d0 == IF ~HasKey(d, <<"structure">>)
              THEN SetItem(d, <<"structure">>, Scalar(EmptyMap)) ELSE d
        d1 == SetItem(d0, <<"structure", name>>, NewFieldConfig(ftype, desc, options))
        r  == save_settings(Some(d1), f, fault)
    IN  IF name = ""
        THEN [settings |-> d, file |-> f, result |-> FALSE, raised |-> FALSE, acted |-> FALSE]
        ELSE IF ~IsMapping(d0, <<"structure">>)
        THEN [settings |-> d0, file |-> f, result |-> FALSE, raised |-> TRUE, acted |-> TRUE]
        ELSE [settings |-> d1, file |-> r.file, result |-> r.result, raised |-> FALSE,
              acted |-> TRUE]

\* field_config["description"] = field_desc, on a rerun after the widget was edited
edit_description(d, name, desc) ==
    SetItem(d, <<"structure", name, "description">>, Scalar(StrLeaf(desc)))

\* ------------------------------------------------------------------ examples

\* saved_settings.get("examples", [])
Examples(d) == IF <<"examples">> \in DOMAIN d THEN d[<<"examples">>].items ELSE <<>>

\* the widgets' values for a new example's output, one per field of the
\* structure (a field of type list gets no widget and no entry)
NewOutput(d) ==
    [name \in {n \in FieldNames(d) : FieldType(d, n) \in {"str", "int", "float", "bool"}} |->
        LET t == FieldType(d, name)
        IN  IF t = "str"
            THEN IF HasOptions(d, name)
                 THEN StrLeaf(d[<<"structure", name, "options">>].items[1])
                 ELSE StrLeaf(<<>>)
            ELSE IF t \in {"int", "float"} THEN FloatLeaf(<<"0.0">>)
            ELSE BoolLeaf(<<"False">>)]

\* the Add Example button: [settings, file, result, acted]
add_example(d, f, new_input, fault) ==
    LET entry == [input |-> new_input, output |-> NewOutput(d)]
        d1 == SetItem(d, <<"examples">>, Scalar(ListLeaf(Append(Examples(d), entry))))
        r  == save_settings(Some(d1), f, fault)
    IN  IF ~HasKey(d, <<"structure">>) \/ ~Truthy(new_input)
        THEN [settings |-> d, file |-> f, result |-> FALSE, acted |-> FALSE]
        ELSE [settings |-> d1, file |-> r.file, result |-> r.result, acted |-> TRUE]

\* examples.pop(i), i counted from 1 here
Pop(xs, i) == SubSeq(xs, 1, i - 1) \o SubSeq(xs, i + 1, Len(xs))

\* the Delete Example button: [settings, file, result]
delete_example(d, f, i, fault) ==
    LET d1 == SetItem(d, <<"examples">>, Scalar(ListLeaf(Pop(Examples(d), i))))
        r  == save_settings(Some(d1), f, fault)
    IN  [settings |-> d1, file |-> r.file, result |-> r.result]

\* ------------------------------------------------------------------ raw YAML, import, run

\* the value yaml.safe_load returned, as save_settings gets it
Loaded(parsed) == IF parsed.status = "none" THEN None ELSE Some(parsed.doc)

\* the Save Raw YAML button: [settings, file, result, raised, saved]
save_raw_yaml(d, f, raw, fault) ==
    LET parsed == safe_load(raw)
        r == save_settings(Loaded(parsed), f, fault)
    IN  IF parsed.status = "error"
        THEN [settings |-> d, file |-> f, result |-> FALSE, raised |-> TRUE, saved |-> None]
        ELSE [settings |-> d, file |-> r.file, result |-> r.result, raised |-> FALSE,
              saved |-> Loaded(parsed)]

\* the Import Configuration button: [settings, file, result, raised, saved]
import_configuration(d, f, raw, fault) ==
    LET parsed == safe_load(raw)
        r == save_settings(Loaded(parsed), f, fault)
    IN  IF parsed.status = "error"
        THEN [settings |-> d, file |-> f, result |-> FALSE, raised |-> TRUE, saved |-> None]
        ELSE [settings |-> d, file |-> r.file, result |-> r.result, raised |-> FALSE,
              saved |-> Loaded(parsed)]

\* a Run that starts the process whatever save_settings returned
run_unchecked(d, f, fault) ==
    LET r == save_settings(Some(d), f, fault)
    IN  [file |-> r.file, result |-> r.result, started |-> TRUE]

\* the Run button: [file, result, started]
run(d, f, fault) ==
    LET r == save_settings(Some(d), f, fault)
    IN  [file |-> r.file, result |-> r.result, started |-> r.result]

\* ------------------------------------------------------------------ inputs

\* a file left by an older version: prompt as a bare string
LegacyDoc == [p \in {<<"prompt">>} |-> StrLeaf(<<"hello">>)]

\* a configuration to import: another provider, and no structure
OtherDoc == [p \in {<<"model", "provider">>} |-> StrLeaf(<<"anthropic">>)]

InitialFiles ==
    {NoFile, FileOf(<<>>), FileOf(<<Garbage>>),
     FileOf(yaml_dump(default_settings)), FileOf(yaml_dump(LegacyDoc))}

RawTexts == {<<>>, <<FlowEmpty>>, <<Garbage>>, yaml_dump(OtherDoc)}

UpdateKeys == {<<"model", ".", "provider">>, <<"prompt", ".", "user">>}

UpdateValues == {StrLeaf(<<"anthropic">>)}

FieldNameInputs == {"", "x"}

\* a type other than str: the handler does not branch on the type, and the
\* default document already holds str fields with and without options
FieldTypes == {"int"}

OptionTexts == {<<"a", "\n", " ">>}

EditNames == {"explanation"}

ExampleInputs == {<<>>, <<" ">>, <<"acme">>}

\* ------------------------------------------------------------------ state machine

NoEv ==
    [op |-> "none", ok |-> FALSE, raised |-> FALSE, acted |-> FALSE,
     created |-> FALSE, again |-> FALSE, key |-> <<>>, name |-> "", raw |-> <<>>]

Ev(op) == [NoEv EXCEPT !.op = op]

Idle == [s \in {1, 2} |-> [pc |-> "off", doc |-> EmptyDoc, result |-> FALSE]]

Init ==
    /\ settings = EmptyDoc
    /\ settings_loaded = FALSE
    /\ file \in InitialFiles
    /\ started = FALSE
    /\ ev = NoEv
    /\ rs = Idle
    /\ lastWriter = 0

\* lines 94-96: the first run of the script in a session
SessionStart ==
    /\ ~settings_loaded
    /\ \E fault \in Faults :
        LET r == load_settings(file, fault)
        IN  /\ settings' = r.settings
            /\ file' = r.file
            /\ ev' = [Ev("load") EXCEPT !.ok = ~r.warned,
                        !.created = (~file.exists /\ ~r.warned),
                        !.again = (ev.op = "load" /\ ev.created)]
    /\ settings_loaded' = TRUE
    /\ started' = FALSE
    /\ UNCHANGED <<rs, lastWriter>>

\* lines 125-127
ForceReload ==
    /\ settings_loaded
    /\ \E fault \in Faults :
        LET r == load_settings(file, fault)
        IN  /\ settings' = r.settings
            /\ file' = r.file
            /\ ev' = [Ev("load") EXCEPT !.ok = ~r.warned,
                        !.created = (~file.exists /\ ~r.warned),
                        !.again = (ev.op = "load" /\ ev.created)]
    /\ started' = FALSE
    /\ UNCHANGED <<settings_loaded, rs, lastWriter>>

\* lines 99-114
UpdateAndSave ==
    /\ settings_loaded
    /\ \E key \in UpdateKeys, value \in UpdateValues, fault \in Faults :
        LET r == update_and_save(settings, file, key, value, fault)
        IN  /\ settings' = r.settings
            /\ file' = r.file
            /\ ev' = [Ev("update") EXCEPT !.ok = r.result, !.raised = r.raised,
                        !.key = SplitKey(key)]
    /\ started' = FALSE
    /\ UNCHANGED <<settings_loaded, rs, lastWriter>>

\* lines 237-241
EditDescription ==
    /\ settings_loaded
    /\ \E name \in FieldNames(settings) \cap EditNames :
        /\ settings' = edit_description(settings, name, <<"edited">>)
        /\ ev' = [Ev("edit") EXCEPT !.name = name]
    /\ started' = FALSE
    /\ UNCHANGED <<settings_loaded, file, rs, lastWriter>>

\* lines 253-284
AddField ==
    /\ settings_loaded
    /\ \E name \in FieldNameInputs, ftype \in FieldTypes, has_options \in BOOLEAN,
          text \in OptionTexts, fault \in Faults :
        LET r == add_field(settings, file, name, ftype, <<"d">>, has_options, text, fault)
        IN  /\ settings' = r.settings
            /\ file' = r.file
            /\ ev' = [Ev("add_field") EXCEPT !.ok = r.result, !.raised = r.raised,
                        !.acted = r.acted, !.name = name]
    /\ started' = FALSE
    /\ UNCHANGED <<settings_loaded, rs, lastWriter>>

\* lines 288-290
SaveStructureChanges ==
    /\ settings_loaded
    /\ \E fault \in Faults :
        LET r == save_settings(Some(settings), file, fault)
        IN  /\ file' = r.file
            /\ ev' = [Ev("save") EXCEPT !.ok = r.result]
    /\ started' = FALSE
    /\ UNCHANGED <<settings, settings_loaded, rs, lastWriter>>

\* lines 313-317
DeleteExample ==
    /\ settings_loaded
    /\ \E i \in 1..Len(Examples(settings)), fault \in Faults :
        LET r == delete_example(settings, file, i, fault)
        IN  /\ settings' = r.settings
            /\ file' = r.file
            /\ ev' = [Ev("delete_example") EXCEPT !.ok = r.result, !.acted = TRUE]
    /\ started' = FALSE
    /\ UNCHANGED <<settings_loaded, rs, lastWriter>>

\* lines 327-373
AddExample ==
    /\ settings_loaded
    /\ Len(Examples(settings)) < MaxExamples
    /\ \E new_input \in ExampleInputs, fault \in Faults :
        LET r == add_example(settings, file, new_input, fault)
        IN  /\ settings' = r.settings
            /\ file' = r.file
            /\ ev' = [Ev("add_example") EXCEPT !.ok = r.result, !.acted = r.acted]
    /\ started' = FALSE
    /\ UNCHANGED <<settings_loaded, rs, lastWriter>>

\* lines 381-387
SaveRawYAML ==
    /\ settings_loaded
    /\ \E raw \in RawTexts, fault \in Faults :
        LET r == save_raw_yaml(settings, file, raw, fault)
        IN  /\ settings' = r.settings
            /\ file' = r.file
            /\ ev' = [Ev("save_raw") EXCEPT !.ok = r.result, !.raised = r.raised,
                        !.raw = raw]
    /\ started' = FALSE
    /\ UNCHANGED <<settings_loaded, rs, lastWriter>>

\* lines 403-412
ImportConfiguration ==
    /\ settings_loaded
    /\ \E raw \in RawTexts, fault \in Faults :
        LET r == import_configuration(settings, file, raw, fault)
        IN  /\ settings' = r.settings
            /\ file' = r.file
            /\ ev' = [Ev("import") EXCEPT !.ok = r.result, !.raised = r.raised,
                        !.raw = raw]
    /\ started' = FALSE
    /\ UNCHANGED <<settings_loaded, rs, lastWriter>>

\* lines 445-451
Run ==
    /\ settings_loaded
    /\ \E fault \in Faults :
        LET r == run(settings, file, fault)
        IN  /\ file' = r.file
            /\ started' = r.started
            /\ ev' = [Ev("run") EXCEPT !.ok = r.result]
    /\ UNCHANGED <<settings, settings_loaded, rs, lastWriter>>

Next ==
    \/ SessionStart
    \/ ForceReload
    \/ UpdateAndSave
    \/ EditDescription
    \/ AddField
    \/ SaveStructureChanges
    \/ DeleteExample
    \/ AddExample
    \/ SaveRawYAML
    \/ ImportConfiguration
    \/ Run

Spec == Init /\ [][Next]_vars

\* ------------------------------------------------------------------ two sessions

\* Two sessions (two script threads, or two processes) that loaded the same
\* file each call update_and_save once.  save_settings is taken step by step:
\* open(yaml_path, 'w') truncates the file and leaves the session's own file
\* position at 0; leaving the with block writes the dumped text at that
\* position; the check reads the file back.

Sessions == {1, 2}

RaceKeys == {<<"model", ".", "provider">>, <<"note">>}

RaceValues == {StrLeaf(<<"anthropic">>), StrLeaf(<<"google">>)}

\* write(data) at file position 0 of a file that holds content
WriteAtStart(content, data) == data \o SubSeq(content, Len(data) + 1, Len(content))

RaceInit ==
    /\ settings = EmptyDoc
    /\ settings_loaded = FALSE
    /\ file = FileOf(yaml_dump(default_settings))
    /\ started = FALSE
    /\ ev = NoEv
    /\ rs = [s \in Sessions |-> [pc |-> "idle", doc |-> default_settings, result |-> FALSE]]
    /\ lastWriter = 0

\* lines 100-110
RaceUpdate(s) ==
    /\ rs[s].pc = "idle"
    /\ \E key \in RaceKeys, value \in RaceValues :
        rs' = [rs EXCEPT ![s].doc = update_in_memory(rs[s].doc, key, value).doc,
                         ![s].pc = "open"]
    /\ UNCHANGED <<settings, settings_loaded, file, started, ev, lastWriter>>

\* line 73
RaceOpen(s) ==
    /\ rs[s].pc = "open"
    /\ file' = FileOf(<<>>)
    /\ rs' = [rs EXCEPT ![s].pc = "dump"]
    /\ UNCHANGED <<settings, settings_loaded, started, ev, lastWriter>>

\* line 74, and the flush when the with block is left
RaceDump(s) ==
    /\ rs[s].pc = "dump"
    /\ file' = FileOf(WriteAtStart(file.content, yaml_dump(rs[s].doc)))
    /\ lastWriter' = s
    /\ rs' = [rs EXCEPT ![s].pc = "verify"]
    /\ UNCHANGED <<settings, settings_loaded, started, ev>>

\* lines 77-88
RaceVerify(s) ==
    /\ rs[s].pc = "verify"
    /\ rs' = [rs EXCEPT ![s].result = (file.exists /\ file.content # <<>>),
                        ![s].pc = "done"]
    /\ UNCHANGED <<settings, settings_loaded, file, started, ev, lastWriter>>

RaceNext ==
    \E s \in Sessions :
        \/ RaceUpdate(s)
        \/ RaceOpen(s)
        \/ RaceDump(s)
        \/ RaceVerify(s)

RaceSpec == RaceInit /\ [][RaceNext]_vars

\* ------------------------------------------------------------------ claims

\* the keys outside the updated path are the same in both documents
SameOutside(d, e, path) ==
    \A q \in DOMAIN d \cup DOMAIN e :
        Unrelated(q, path) => q \in DOMAIN d /\ q \in DOMAIN e /\ d[q] = e[q]

\* the document a file holds, when it holds one
Holds(f) == f.exists /\ safe_load(f.content).status = "ok"

DocOf(f) == safe_load(f.content).doc

SaveOps == {"update", "add_field", "save", "delete_example", "add_example",
            "save_raw", "import", "run"}

Saved == IF ev.op \in {"save_raw", "import"} THEN safe_load(ev.raw).doc ELSE settings

\* C2, as stated: for any document d, also one with no keys, a load() right
\* after a successful save(d) returns d.
C2_SaveLoadOriginal ==
    (ev.op \in SaveOps /\ ev.ok) =>
        load_settings(file, "ok").settings = Saved

\* C2, amended: for any document d with at least one key, a load() right
\* after a successful save(d) returns d.
C2_SaveLoad ==
    (ev.op \in SaveOps /\ ev.ok /\ DOMAIN Saved # {}) =>
        /\ load_settings(file, "ok").settings = Saved
        /\ load_settings(file, "ok").file = file

\* C2's case: a document with an added field and an example was saved
C2_Witness ==
    /\ ev.op = "add_example" /\ ev.ok
    /\ Len(Examples(settings)) = 1
    /\ <<"structure", "x", "options">> \in DOMAIN settings
    /\ load_settings(file, "ok").settings = settings

\* C3: load() where the file does not exist returns the default document and,
\* when the write does not raise, leaves it in the file; a load() right after
\* it returns the default document again and leaves the file as it is.
C3_DefaultSubstitution ==
    [][(ev'.op = "load") =>
          /\ ~file.exists => settings' = default_settings
          /\ ev'.created => file' = FileOf(yaml_dump(default_settings))
          /\ ev'.again => settings' = default_settings /\ file' = file]_vars

\* C3's case: a second load ran right after the load that created the file
C3_Witness ==
    /\ ev.op = "load" /\ ev.again /\ ev.ok
    /\ settings = default_settings
    /\ file = FileOf(yaml_dump(default_settings))

\* C4: after a successful import the document in memory is the imported
\* document, and so is the document the file holds.
C4_ImportReplaces ==
    (ev.op = "import" /\ ev.ok) =>
        /\ settings = safe_load(ev.raw).doc
        /\ Holds(file) /\ DocOf(file) = settings

\* C5: an update, add-field, add-example or delete-example whose save fails
\* leaves the document in memory as it was before the call.
C5_FailedSaveKeepsDocument ==
    [][(ev'.op \in {"update", "add_field", "add_example", "delete_example"} /\ ~ev'.ok)
          => settings' = settings]_vars

\* C6: add_field with a name that structure already has fails and changes
\* nothing: the field keeps its type, description and options.
C6_DuplicateFieldRejected ==
    [][(ev'.op = "add_field" /\ ev'.name \in FieldNames(settings))
          => (~ev'.ok /\ settings' = settings /\ file' = file)]_vars

\* C7: no field of structure has options unless its type is str.
C7_OptionsOnlyOnStr ==
    \A name \in FieldNames(settings) :
        HasOptions(settings, name) => FieldType(settings, name) = "str"

\* C8: every example has an input that is not blank.
C8_NoBlankExampleInput ==
    \A i \in 1..Len(Examples(settings)) : ~IsBlank(Examples(settings)[i].input)

\* C9: the run is started only by a Run whose save succeeded, and then the
\* file holds the document in memory; a Run whose save fails starts nothing.
C9_RunAfterSave ==
    /\ started =>
        /\ ev.op = "run" /\ ev.ok
        /\ file = FileOf(yaml_dump(settings))
        /\ Holds(file) /\ DocOf(file) = settings
    /\ (ev.op = "run" /\ ~ev.ok) => ~started

\* C9's case: the run was started on a document that had been changed
C9_Witness ==
    /\ started
    /\ ev.op = "run"
    /\ <<"structure", "x", "type">> \in DOMAIN settings
    /\ DocOf(file) = settings

\* C10: when both racing sessions are done, the file is the complete document
\* of the session that wrote last, and a session was told its save succeeded
\* only with a file that was not empty.
C10_LastWriterWins ==
    (\A s \in Sessions : rs[s].pc = "done") =>
        /\ file.content = yaml_dump(rs[lastWriter].doc)
        /\ \A s \in Sessions : rs[s].result => file.content # <<>>

====
